---- MODULE Spec2Model ----
(***************************************************************************)
(* Model of setup.py of PEAK-Rules: the module-level script that builds    *)
(* the package descriptor, and get_description(), which derives            *)
(* long_description from README.txt.                                        *)
(*                                                                         *)
(* A character is a one-character string, a line is a sequence of          *)
(* characters as the file iterator yields it (terminator included), and a  *)
(* document is the sequence of lines of README.txt.                        *)
(***************************************************************************)
EXTENDS Integers, Sequences, FiniteSets, TLC

\* ------------------------------------------------------------------ bounds
MaxLines == 5

\* Calls of get_description a run of SpecRerun makes on one document.
MaxRuns == 2

\* ------------------------------------------------------- string primitives
\* The characters str.strip() removes (string.whitespace; "\x0b" has no
\* TLA+ escape and does not occur in the documents enumerated below).
Whitespace == {" ", "\t", "\n", "\r", "\f"}

\* The literal of line 21.
MarkerToken == <<".", ".", " ", "c", "o", "n", "t", "e", "n", "t", "s", ":", ":">>

RECURSIVE LStrip(_)
LStrip(s) == IF s = <<>> THEN <<>>
             ELSE IF Head(s) \in Whitespace THEN LStrip(Tail(s)) ELSE s

RECURSIVE RStrip(_)
RStrip(s) == IF s = <<>> THEN <<>>
             ELSE IF s[Len(s)] \in Whitespace
                  THEN RStrip(SubSeq(s, 1, Len(s) - 1)) ELSE s

\* Variant of Strip: only the line terminator is removed.
Strip_NewlineOnly(s) ==
    IF s # <<>> /\ s[Len(s)] = "\n" THEN SubSeq(s, 1, Len(s) - 1) ELSE s

\* line.strip()
Strip(s) == RStrip(LStrip(s))

\* Variant of StartsWith: the prefix may begin anywhere in the line.
StartsWith_Anywhere(s, prefix) ==
    \E k \in 1..Len(s) :
        /\ k + Len(prefix) - 1 <= Len(s)
        /\ SubSeq(s, k, k + Len(prefix) - 1) = prefix

\* line.startswith(prefix)
StartsWith(s, prefix) ==
    /\ Len(s) >= Len(prefix)
    /\ SubSeq(s, 1, Len(prefix)) = prefix

\* ''.join(ls)
RECURSIVE Join(_)
Join(ls) == IF ls = <<>> THEN <<>> ELSE Head(ls) \o Join(Tail(ls))

\* ------------------------------------------------------------- documents
NL == <<"\n">>

TitleLine     == <<"T">> \o NL
BodyLine      == <<"b">> \o NL
EmptyLine     == NL
SpaceLine     == <<" ", "\t">> \o NL
MarkerLine    == MarkerToken \o NL
IndentedLine  == <<" ">> \o MarkerToken \o NL

\* Lines that end in a newline: they can stand anywhere in a file.
TerminatedLines ==
    {TitleLine, BodyLine, EmptyLine, SpaceLine, MarkerLine, IndentedLine}

\* Lines without a newline: the file iterator yields one only as the last
\* line of a file.
UnterminatedLines ==
    {<<"b">>, <<" ">>, MarkerToken \o <<" ", "x">>,
     SubSeq(MarkerToken, 1, Len(MarkerToken) - 1)}

\* The line sequences iterating a file can yield: every line but the last
\* ends in its newline.
WellFormed(d) ==
    \A i \in 1..(Len(d) - 1) : d[i] \in TerminatedLines

\* ----------------------------------------------------------------- state
VARIABLES
    doc,              \* README.txt as the lines iterating it yields
    openable,         \* whether file('README.txt') succeeds
    pc,               \* position in setup.py
    fstate,           \* the file object f: "none", "open", "closed"
    cursor,           \* number of lines f's iterator has yielded
    lines,            \* the local list of get_description
    blankAt,          \* index of the line the first loop broke on, 0 if none
    markerAt,         \* index of the line the second loop broke on, 0 if none
    readLog,          \* indexes of the lines yielded by f, in order
    result,           \* the value get_description returned
    results,          \* the values returned by the calls made so far
    error,            \* the exception that left get_description, or "none"
    setupCalled,      \* whether setup() was invoked
    long_description  \* the long_description argument setup() was given

vars == <<doc, openable, pc, fstate, cursor, lines, blankAt, markerAt,
          readLog, result, results, error, setupCalled, long_description>>

env == <<doc, openable, results>>

Init ==
    /\ \E n \in 0..MaxLines :
         doc \in [1..n -> TerminatedLines \cup UnterminatedLines]
    /\ WellFormed(doc)
    /\ openable \in BOOLEAN
    /\ pc = "call"
    /\ fstate = "none"
    /\ cursor = 0
    /\ lines = <<>>
    /\ blankAt = 0
    /\ markerAt = 0
    /\ readLog = <<>>
    /\ result = <<>>
    /\ results = <<>>
    /\ error = "none"
    /\ setupCalled = FALSE
    /\ long_description = <<>>

\* --------------------------------------------------------------- actions
\* f = file('README.txt'), the file exists and is readable.
Open ==
    /\ pc = "call"
    /\ openable
    /\ fstate' = "open"
    /\ cursor' = 0
    /\ readLog' = <<>>
    /\ blankAt' = 0
    /\ markerAt' = 0
    /\ pc' = "init"
    /\ UNCHANGED <<env, lines, result, error, setupCalled, long_description>>

\* Variant of OpenFail: the IOError is caught and an empty description
\* returned.
OpenFail_Swallowed ==
    /\ pc = "call"
    /\ ~openable
    /\ result' = <<>>
    /\ pc' = "returned"
    /\ UNCHANGED <<env, fstate, cursor, lines, blankAt, markerAt, readLog,
                   error, setupCalled, long_description>>

\* f = file('README.txt') raises IOError; nothing in setup.py catches it.
OpenFail ==
    /\ pc = "call"
    /\ ~openable
    /\ error' = "open"
    /\ pc' = "aborted"
    /\ UNCHANGED <<env, fstate, cursor, lines, blankAt, markerAt, readLog,
                   result, setupCalled, long_description>>

\* Variant of InitLines: the list outlives the call.
InitLines_Keeps ==
    /\ pc = "init"
    /\ pc' = "skip"
    /\ UNCHANGED <<env, fstate, cursor, lines, blankAt, markerAt, readLog,
                   result, error, setupCalled, long_description>>

\* lines = []
InitLines ==
    /\ pc = "init"
    /\ lines' = <<>>
    /\ pc' = "skip"
    /\ UNCHANGED <<env, fstate, cursor, blankAt, markerAt, readLog, result,
                   error, setupCalled, long_description>>

\* Variant of SkipRead: the second loop starts over from the first line.
SkipRead_Reopens ==
    /\ pc = "skip"
    /\ cursor < Len(doc)
    /\ readLog' = Append(readLog, cursor + 1)
    /\ IF Strip(doc[cursor + 1]) = <<>>
         THEN blankAt' = cursor + 1 /\ pc' = "collect" /\ cursor' = 0
         ELSE blankAt' = blankAt /\ pc' = "skip" /\ cursor' = cursor + 1
    /\ UNCHANGED <<env, fstate, lines, markerAt, result, error, setupCalled,
                   long_description>>

\* One iteration of the first loop: f yields a line, a blank one breaks.
SkipRead ==
    /\ pc = "skip"
    /\ cursor < Len(doc)
    /\ cursor' = cursor + 1
    /\ readLog' = Append(readLog, cursor + 1)
    /\ IF Strip(doc[cursor + 1]) = <<>>
         THEN blankAt' = cursor + 1 /\ pc' = "collect"
         ELSE blankAt' = blankAt /\ pc' = "skip"
    /\ UNCHANGED <<env, fstate, lines, markerAt, result, error, setupCalled,
                   long_description>>

\* Variant of SkipEOF: without a blank line the file is rewound.
SkipEOF_Rewinds ==
    /\ pc = "skip"
    /\ cursor = Len(doc)
    /\ cursor' = 0
    /\ pc' = "collect"
    /\ UNCHANGED <<env, fstate, lines, blankAt, markerAt, readLog,
                   result, error, setupCalled, long_description>>

\* The first loop ends because f is exhausted.
SkipEOF ==
    /\ pc = "skip"
    /\ cursor = Len(doc)
    /\ pc' = "collect"
    /\ UNCHANGED <<env, fstate, cursor, lines, blankAt, markerAt, readLog,
                   result, error, setupCalled, long_description>>

\* Variant of CollectRead: the marker line is appended before the break.
CollectRead_KeepsMarker ==
    /\ pc = "collect"
    /\ cursor < Len(doc)
    /\ cursor' = cursor + 1
    /\ readLog' = Append(readLog, cursor + 1)
    /\ lines' = Append(lines, doc[cursor + 1])
    /\ IF StartsWith(doc[cursor + 1], MarkerToken)
         THEN markerAt' = cursor + 1 /\ pc' = "close"
         ELSE markerAt' = markerAt /\ pc' = "collect"
    /\ UNCHANGED <<env, fstate, blankAt, result, error, setupCalled,
                   long_description>>

\* Variant of CollectRead: the line is appended stripped.
CollectRead_Strips ==
    /\ pc = "collect"
    /\ cursor < Len(doc)
    /\ cursor' = cursor + 1
    /\ readLog' = Append(readLog, cursor + 1)
    /\ IF StartsWith(doc[cursor + 1], MarkerToken)
         THEN markerAt' = cursor + 1 /\ lines' = lines /\ pc' = "close"
         ELSE markerAt' = markerAt
              /\ lines' = Append(lines, Strip(doc[cursor + 1]))
              /\ pc' = "collect"
    /\ UNCHANGED <<env, fstate, blankAt, result, error, setupCalled,
                   long_description>>

\* Variant of CollectRead: the line is put at the front of the list.
CollectRead_Prepends ==
    /\ pc = "collect"
    /\ cursor < Len(doc)
    /\ cursor' = cursor + 1
    /\ readLog' = Append(readLog, cursor + 1)
    /\ IF StartsWith(doc[cursor + 1], MarkerToken)
         THEN markerAt' = cursor + 1 /\ lines' = lines /\ pc' = "close"
         ELSE markerAt' = markerAt
              /\ lines' = <<doc[cursor + 1]>> \o lines
              /\ pc' = "collect"
    /\ UNCHANGED <<env, fstate, blankAt, result, error, setupCalled,
                   long_description>>

\* One iteration of the second loop: f yields the next line, a marker line
\* breaks, any other line is appended.
CollectRead ==
    /\ pc = "collect"
    /\ cursor < Len(doc)
    /\ cursor' = cursor + 1
    /\ readLog' = Append(readLog, cursor + 1)
    /\ IF StartsWith(doc[cursor + 1], MarkerToken)
         THEN markerAt' = cursor + 1 /\ lines' = lines /\ pc' = "close"
         ELSE markerAt' = markerAt
              /\ lines' = Append(lines, doc[cursor + 1])
              /\ pc' = "collect"
    /\ UNCHANGED <<env, fstate, blankAt, result, error, setupCalled,
                   long_description>>

\* The second loop ends because f is exhausted.
CollectEOF ==
    /\ pc = "collect"
    /\ cursor = Len(doc)
    /\ pc' = "close"
    /\ UNCHANGED <<env, fstate, cursor, lines, blankAt, markerAt, readLog,
                   result, error, setupCalled, long_description>>

\* f.close()
Close ==
    /\ pc = "close"
    /\ fstate' = "closed"
    /\ pc' = "join"
    /\ UNCHANGED <<env, cursor, lines, blankAt, markerAt, readLog, result,
                   error, setupCalled, long_description>>

\* return ''.join(lines)
Return ==
    /\ pc = "join"
    /\ result' = Join(lines)
    /\ results' = Append(results, Join(lines))
    /\ pc' = "returned"
    /\ UNCHANGED <<doc, openable, fstate, cursor, lines, blankAt, markerAt, readLog,
                   error, setupCalled, long_description>>

\* setup(..., long_description = get_description(), ...)
Setup ==
    /\ pc = "returned"
    /\ setupCalled' = TRUE
    /\ long_description' = result
    /\ pc' = "done"
    /\ UNCHANGED <<env, fstate, cursor, lines, blankAt, markerAt, readLog,
                   result, error>>

Next ==
    \/ Open
    \/ OpenFail
    \/ InitLines
    \/ SkipRead
    \/ SkipEOF
    \/ CollectRead
    \/ CollectEOF
    \/ Close
    \/ Return
    \/ Setup

Spec == Init /\ [][Next]_vars

\* The scheduling of a sequential script: a statement that can run does.
FairSpec == Spec /\ WF_vars(Next)

\* ----------------------------------------------------- failing line reads
\* The read behind f's iterator fails: the for statement raises IOError,
\* which leaves get_description at once (no try/finally around the loops).
ReadFail ==
    /\ pc \in {"skip", "collect"}
    /\ error' = "read"
    /\ pc' = "aborted"
    /\ UNCHANGED <<env, fstate, cursor, lines, blankAt, markerAt, readLog,
                   result, setupCalled, long_description>>

NextIO ==
    \/ Next
    \/ ReadFail

SpecIO == Init /\ [][NextIO]_vars

\* -------------------------------------------------------- repeated calls
\* get_description() is called again on the same README.txt.
Rerun ==
    /\ pc = "returned"
    /\ Len(results) < MaxRuns
    /\ pc' = "call"
    /\ UNCHANGED <<env, fstate, cursor, lines, blankAt, markerAt, readLog,
                   result, error, setupCalled, long_description>>

NextRerun ==
    \/ Next
    \/ Rerun

SpecRerun == Init /\ [][NextRerun]_vars

\* ------------------------------------------- what the claims speak about
\* A line that is empty once its whitespace is removed.
IsBlankLine(l) == \A k \in 1..Len(l) : l[k] \in Whitespace

\* A line that begins with '.. contents::'.
IsMarkerLine(l) ==
    /\ Len(l) >= Len(MarkerToken)
    /\ \A k \in 1..Len(MarkerToken) : l[k] = MarkerToken[k]

\* Index of the first blank line of d, 0 if d has none.
FirstBlank(d) ==
    IF \E i \in 1..Len(d) : IsBlankLine(d[i])
      THEN CHOOSE i \in 1..Len(d) :
             IsBlankLine(d[i]) /\ \A j \in 1..(i - 1) : ~IsBlankLine(d[j])
      ELSE 0

\* Index of the first marker line of d after line b, 0 if there is none.
FirstMarkerAfter(d, b) ==
    IF \E i \in (b + 1)..Len(d) : IsMarkerLine(d[i])
      THEN CHOOSE i \in (b + 1)..Len(d) :
             IsMarkerLine(d[i]) /\ \A j \in (b + 1)..(i - 1) : ~IsMarkerLine(d[j])
      ELSE 0

\* Number of characters of the first n lines of ls.
RECURSIVE CharsBefore(_, _)
CharsBefore(ls, n) ==
    IF n = 0 THEN 0 ELSE CharsBefore(ls, n - 1) + Len(ls[n])

\* r is the lines of ls written one after the other, nothing added.
IsConcatOf(r, ls) ==
    /\ Len(r) = CharsBefore(ls, Len(ls))
    /\ \A i \in 1..Len(ls) : \A k \in 1..Len(ls[i]) :
         r[CharsBefore(ls, i - 1) + k] = ls[i][k]

\* get_description has returned.
Returned == pc \in {"returned", "done"}

\* The second loop is over.
Scanned == pc \in {"close", "join", "returned", "done"}

\* The last line the second loop kept, as an index of doc.
LastKept == IF markerAt > 0 THEN markerAt - 1 ELSE Len(doc)

\* ---------------------------------------------------------------- claims
\* C1: for a document made of a header, a first blank line, body lines, a
\* line starting with '.. contents::' and any trailing content, the value
\* returned is exactly the lines strictly between the first blank line and
\* the first marker line after it, in order, written one after the other.
C1_BodyBetweenBlankAndMarker ==
    LET b == FirstBlank(doc)
        m == FirstMarkerAfter(doc, b)
    IN  (Returned /\ b > 0 /\ m > 0)
          => IsConcatOf(result, SubSeq(doc, b + 1, m - 1))

\* C1 witness: a returned call on a document with a header, a blank line,
\* a body, a marker line and trailing content.
C1_Witness ==
    LET b == FirstBlank(doc)
        m == FirstMarkerAfter(doc, b)
    IN  /\ pc = "returned"
        /\ b > 1
        /\ m > b + 1
        /\ m < Len(doc)
        /\ result # <<>>

\* C2: for a document with no blank line the scan runs to the end of the
\* input, nothing is accumulated, no error is raised and the value returned
\* is the empty string, also when the document has a marker line.
C2_NoBlankLineGivesEmpty ==
    (openable /\ FirstBlank(doc) = 0)
      => /\ error = "none"
         /\ pc # "aborted"
         /\ lines = <<>>
         /\ Scanned => cursor = Len(doc)
         /\ Returned => result = <<>>

\* C2 witness: a returned call on a document without a blank line that has
\* a marker line.
C2_Witness ==
    /\ pc = "returned"
    /\ FirstBlank(doc) = 0
    /\ Len(doc) >= 3
    /\ \E i \in 1..Len(doc) : IsMarkerLine(doc[i])

\* C3: for a document with a blank line and no marker line after it, no
\* error is raised and the value returned is all the lines after the first
\* blank line, unmodified and in order; a document that is a single blank
\* line gives the empty string.
C3_NoMarkerGivesRemainder ==
    LET b == FirstBlank(doc)
    IN  (openable /\ b > 0 /\ FirstMarkerAfter(doc, b) = 0)
          => /\ error = "none"
             /\ pc # "aborted"
             /\ Returned => IsConcatOf(result, SubSeq(doc, b + 1, Len(doc)))
             /\ (Returned /\ Len(doc) = 1) => result = <<>>

\* C3 witness: a returned call on a document with a header, a blank line
\* and lines after it, none of them a marker line.
C3_Witness ==
    LET b == FirstBlank(doc)
    IN  /\ pc = "returned"
        /\ b > 1
        /\ FirstMarkerAfter(doc, b) = 0
        /\ Len(doc) >= b + 2
        /\ result # <<>>

\* C4: on every path that begins with a successful open (marker found,
\* marker absent, no blank line, or a failure while reading lines) the file
\* is closed when get_description finishes, and get_description never
\* returns while the file is open.
C4_ClosedWhenFinished ==
    (Returned \/ (pc = "aborted" /\ fstate # "none")) => fstate = "closed"

\* C5 as stated: failing to open README.txt is the only failure; it
\* propagates and setup() is never invoked; every document that can be
\* opened ends in a setup() call given the value get_description returned.
C5_OpenIsTheOnlyFailure ==
    /\ error # "none" => (error = "open" /\ ~openable /\ ~setupCalled)
    /\ ~openable => (~setupCalled /\ fstate = "none")
    /\ pc = "aborted" => error = "open"
    /\ (pc \in {"done", "aborted"} /\ openable)
         => (pc = "done" /\ setupCalled /\ long_description = result)

\* C5 amended: failing to open README.txt and failing to read a line from it
\* are the only failures; neither is handled, each ends the script before
\* setup() is invoked; every document that is opened and read without an
\* I/O failure ends in a setup() call given the value get_description
\* returned, whatever its structure.
C5_OpenOrReadIsTheOnlyFailure ==
    /\ error # "none" => (error \in {"open", "read"} /\ pc = "aborted"
                          /\ ~setupCalled)
    /\ error = "open" => (~openable /\ fstate = "none")
    /\ error = "read" => openable
    /\ ~openable => (~setupCalled /\ fstate = "none" /\ pc \in {"call", "aborted"})
    /\ pc = "aborted" => error # "none"
    /\ (pc \in {"done", "aborted"} /\ openable /\ error # "read")
         => (pc = "done" /\ setupCalled /\ long_description = result)
    /\ setupCalled => (pc = "done" /\ long_description = result
                       /\ IsConcatOf(long_description,
                                     IF blankAt = 0 THEN <<>>
                                     ELSE SubSeq(doc, blankAt + 1, LastKept)))

\* C5 witness: the open failed and the script stopped without a setup() call.
C5_Witness ==
    /\ pc = "aborted"
    /\ error = "open"
    /\ ~setupCalled
    /\ Len(doc) >= 3

\* C6: calling get_description again on the same document returns the same
\* value; every call starts at the first line with an empty accumulator.
C6_RerunGivesSameResult ==
    /\ \A i \in 1..Len(results) : \A j \in 1..Len(results) :
         results[i] = results[j]
    /\ pc = "init" => (cursor = 0 /\ readLog = <<>>)
    /\ (pc = "skip" /\ cursor = 0) => lines = <<>>

\* C6 witness: two calls on a document with something to return are over.
C6_Witness ==
    /\ pc = "returned"
    /\ Len(results) = 2
    /\ results[1] # <<>>
    /\ markerAt > 0

\* C7: the scan is one forward pass that ends: the lines are read in order,
\* each at most once and none skipped, also across the two loops; the cursor
\* never moves backwards; nothing is read after the marker line; and the
\* script reaches its end.
C7_SingleForwardPassTerminates ==
    /\ [](/\ Len(readLog) = cursor
          /\ cursor <= Len(doc)
          /\ \A k \in 1..Len(readLog) : readLog[k] = k
          /\ markerAt > 0 => cursor = markerAt
          /\ (pc = "collect" /\ blankAt > 0 /\ lines = <<>>) => cursor = blankAt)
    /\ [][cursor' >= cursor]_vars
    /\ <>(pc \in {"done", "aborted"})

\* C7 witness: the script ended after a scan through a header, a blank
\* line, a body and a marker line that is not the last line.
C7_Witness ==
    /\ pc = "done"
    /\ blankAt > 1
    /\ markerAt > blankAt + 1
    /\ markerAt < Len(doc)
    /\ Len(readLog) = markerAt

\* C8: the header ends at the first line that is empty after stripping
\* whitespace, be it an empty line or a whitespace-only one; that line is
\* not part of the result, and later blank lines of the body are kept as
\* they are.
C8_FirstBlankLineIsTheBoundary ==
    /\ pc \in {"collect", "close", "join", "returned", "done"}
         => blankAt = FirstBlank(doc)
    /\ pc \in {"call", "init", "skip"}
         => (blankAt = 0 /\ \A i \in 1..cursor : ~IsBlankLine(doc[i]))
    /\ (Scanned /\ blankAt > 0)
         => /\ Len(lines) = LastKept - blankAt
            /\ \A i \in (blankAt + 1)..LastKept :
                 IsBlankLine(doc[i]) => lines[i - blankAt] = doc[i]

\* C8 witness: the header ended at a whitespace-only line and a later blank
\* line is part of what was returned.
C8_Witness ==
    /\ pc = "returned"
    /\ blankAt > 1
    /\ doc[blankAt] = SpaceLine
    /\ \E i \in (blankAt + 1)..LastKept : IsBlankLine(doc[i])
    /\ LastKept > blankAt + 1

\* C9: the marker counts only after the first blank line and only at the
\* start of a line: marker lines of the header change nothing, a line that
\* has the marker after other characters is kept, and the collection ends
\* at the first marker line after the blank line.
C9_MarkerOnlyAsPrefixAfterBlank ==
    LET b == FirstBlank(doc)
    IN  /\ pc \in {"call", "init", "skip"} => markerAt = 0
        /\ Scanned => markerAt = (IF b = 0 THEN 0 ELSE FirstMarkerAfter(doc, b))
        /\ (Scanned /\ b > 0)
             => /\ \A i \in (b + 1)..LastKept : ~IsMarkerLine(doc[i])
                /\ Len(lines) = LastKept - b
                /\ \A i \in (b + 1)..LastKept :
                     (\E k \in 2..Len(doc[i]) :
                        IsMarkerLine(SubSeq(doc[i], k, Len(doc[i]))))
                       => lines[i - b] = doc[i]

\* C9 witness: a marker line in the header, then the blank line, a line
\* with the marker after a space, and two marker lines.
C9_Witness ==
    /\ pc = "returned"
    /\ Len(doc) = 5
    /\ blankAt = 2
    /\ IsMarkerLine(doc[1])
    /\ doc[3] = IndentedLine
    /\ markerAt = 4
    /\ IsMarkerLine(doc[5])
    /\ lines = <<IndentedLine>>

\* C10: at every step the accumulated list is a run of consecutive,
\* unmodified lines of the document that starts right after the first blank
\* line and ends at the last line read that is not the marker line; it is
\* empty while the header is skipped, grows only by appending the line just
\* read, holds no marker line and no header line, and the value returned is
\* those lines written one after the other.
C10_AccumulatorIsContiguousSlice ==
    /\ [](/\ lines = SubSeq(doc, blankAt + 1, blankAt + Len(lines))
          /\ blankAt + Len(lines) <= Len(doc)
          /\ pc \in {"call", "init", "skip"} => lines = <<>>
          /\ blankAt = 0 => lines = <<>>
          /\ blankAt > 0
               => blankAt + Len(lines) = (IF markerAt > 0 THEN cursor - 1 ELSE cursor)
          /\ \A i \in 1..Len(lines) : ~IsMarkerLine(lines[i])
          /\ Returned
               => IsConcatOf(result, SubSeq(doc, blankAt + 1, blankAt + Len(lines))))
    /\ [][lines' # lines
            => (cursor' = cursor + 1 /\ lines' = Append(lines, doc[cursor']))]_vars

\* C10 witness: the second loop is running with two lines accumulated.
C10_Witness ==
    /\ pc = "collect"
    /\ blankAt > 1
    /\ Len(lines) = 2
    /\ cursor < Len(doc)

====
